---- MODULE Spec2Model ----
(***************************************************************************)
(* A model of dota-odds-calc (src/src/main.rs): the odds tables, the two   *)
(* numeric functions expected_value and probability, the chart writer and  *)
(* main's dispatch.  All arithmetic on odds is IEEE-754 binary32 (Rust's   *)
(* f32) with round-to-nearest-even, modelled on integers.                  *)
(***************************************************************************)
EXTENDS Integers, Sequences, FiniteSets, TLC

(***************************************************************************)
(* f32.  Every value the program computes is a finite non-negative number, *)
(* so a value is a record [m, e] standing for m * 2^e, with m = 0, e = 0   *)
(* for zero and 2^23 <= m < 2^24 otherwise.  The exponent is not bounded:   *)
(* within the bounds of this model every value stays inside binary32's     *)
(* normal range (F32Normal, part of TypeOK below).  The sign of zero is not *)
(* kept: the program divides by no zero and prints no zero in the report.  *)
(* TLC's integers are 32 bits wide, so products and quotients of 24-bit    *)
(* significands are computed in limbs.                                     *)
(***************************************************************************)
P23 == 2^23
P24 == 2^24

Len4(M) == IF M >= 4 THEN (IF M >= 8 THEN 4 ELSE 3)
           ELSE (IF M >= 2 THEN 2 ELSE IF M >= 1 THEN 1 ELSE 0)
Len8(M) == IF M >= 16 THEN 4 + Len4(M \div 16) ELSE Len4(M)
Len16(M) == IF M >= 256 THEN 8 + Len8(M \div 256) ELSE Len8(M)
\* The number of bits of M, 0 <= M < 2^31.
BitLen(M) == IF M >= 65536 THEN 16 + Len16(M \div 65536) ELSE Len16(M)

F32Zero == [m |-> 0, e |-> 0]

\* Round M * 2^e (M < 2^31, whose lowest bit may be a sticky bit standing for
\* discarded non-zero bits) to 24 significant bits, ties to even.
F32Round(M, e) ==
    IF M = 0 THEN F32Zero
    ELSE LET n == BitLen(M) IN
         IF n <= 24 THEN [m |-> M * 2^(24 - n), e |-> e - (24 - n)]
         ELSE LET s    == n - 24
                  q    == M \div 2^s
                  r    == M % 2^s
                  half == 2^(s - 1)
                  up   == r > half \/ (r = half /\ q % 2 = 1)
                  q2   == IF up THEN q + 1 ELSE q
              IN  IF q2 = P24 THEN [m |-> P23, e |-> e + s + 1]
                  ELSE [m |-> q2, e |-> e + s]

\* usize as f32
F32FromInt(n) == F32Round(n, 0)

\* M shifted right by d bits, the bits shifted out OR-ed into the lowest bit.
ShiftSticky(M, d) ==
    IF d = 0 THEN M
    ELSE IF d >= 31 THEN (IF M = 0 THEN 0 ELSE 1)
    ELSE LET q == M \div 2^d
         IN  IF M % 2^d = 0 THEN q ELSE (q - (q % 2)) + 1

F32Lt(a, b) ==
    IF a.m = 0 THEN b.m # 0
    ELSE IF b.m = 0 THEN FALSE
    ELSE a.e < b.e \/ (a.e = b.e /\ a.m < b.m)

F32Le(a, b) == a = b \/ F32Lt(a, b)

F32Add(a, b) ==
    IF a.m = 0 THEN b
    ELSE IF b.m = 0 THEN a
    ELSE LET hi == IF a.e >= b.e THEN a ELSE b
             lo == IF a.e >= b.e THEN b ELSE a
         IN  F32Round(hi.m * 8 + ShiftSticky(lo.m * 8, hi.e - lo.e), hi.e - 3)

\* a - b for a >= b (the program never subtracts a larger from a smaller f32)
F32Sub(a, b) ==
    IF b.m = 0 THEN a
    ELSE F32Round(a.m * 8 - ShiftSticky(b.m * 8, a.e - b.e), a.e - 3)

F32Mul(a, b) ==
    IF a.m = 0 \/ b.m = 0 THEN F32Zero
    ELSE LET a1 == a.m \div 4096
             a0 == a.m % 4096
             b1 == b.m \div 4096
             b0 == b.m % 4096
             ll == a0 * b0
             t  == a1 * b0 + a0 * b1 + (ll \div 4096)
             H  == a1 * b1 + (t \div 4096)
             L  == (t % 4096) * 4096 + (ll % 4096)
             \* a.m * b.m = H * 2^24 + L
             st == IF L % 2097152 = 0 THEN 0 ELSE 1
             M  == H * 16 + (L \div 2097152) * 2 + st
         IN  F32Round(M, a.e + b.e + 20)

\* One step of long division: 7 more quotient bits.
DivStep(qr, d) ==
    [q |-> qr.q * 128 + ((qr.r * 128) \div d), r |-> (qr.r * 128) % d]

F32Div(a, b) ==
    IF a.m = 0 THEN F32Zero
    ELSE LET s0 == [q |-> a.m \div b.m, r |-> a.m % b.m]
             s3 == DivStep(DivStep(DivStep(s0, b.m), b.m), b.m)
             s4 == [q |-> s3.q * 64 + ((s3.r * 64) \div b.m), r |-> (s3.r * 64) % b.m]
             \* a.m / b.m = (s4.q + s4.r / b.m) * 2^-27
             M  == s4.q * 2 + (IF s4.r = 0 THEN 0 ELSE 1)
         IN  F32Round(M, a.e - b.e - 28)

F32One == F32FromInt(1)

\* A value binary32 holds as zero or as a normal number.
F32Normal(x) ==
    \/ x = F32Zero
    \/ x.m >= P23 /\ x.m < P24 /\ x.e >= -149 /\ x.e <= 104

(***************************************************************************)
(* The odds tables.  The source writes each entry as a decimal literal     *)
(* with at most one fractional digit; the f32 it denotes is the correctly  *)
(* rounded quotient of the entry in tenths by ten.                         *)
(***************************************************************************)
MAX_ODDS == 50

Rarity == {"Rare", "VeryRare", "UltraRare"}

RareTenths ==
    <<200000, 5830, 1870, 880, 510, 330, 230, 170, 131, 104,
       85, 71, 60, 52, 45, 40, 36, 32, 29, 26,
       24, 22, 21, 19, 18, 17, 16, 15, 15, 14,
       13, 13, 12, 12, 12, 11, 11, 11, 11, 10,
       10, 10, 10, 10, 10, 10, 10, 10, 10, 10>>

VeryRareTenths ==
    <<200000, 36530, 10590, 4850, 2760, 1780, 1240, 920, 700, 560,
       450, 380, 320, 270, 240, 210, 180, 160, 141, 127,
       115, 105, 96, 88, 81, 75, 70, 65, 60, 57,
       53, 50, 47, 45, 42, 40, 38, 36, 34, 33,
       32, 30, 29, 28, 27, 26, 25, 24, 23, 22>>

UltraRareTenths ==
    <<1000000, 273800, 86140, 40210, 23030, 14860, 10370, 7640, 5860, 4640,
       3760, 3110, 2620, 2230, 1930, 1680, 1480, 1310, 1170, 1050,
       950, 860, 790, 720, 660, 610, 570, 530, 490, 460,
       430, 400, 380, 350, 330, 320, 300, 280, 270, 260,
       240, 230, 220, 210, 200, 190, 190, 180, 170, 170>>

F32Ten == F32FromInt(10)

F32Table(tenths) == [i \in 1..MAX_ODDS |-> F32Div(F32FromInt(tenths[i]), F32Ten)]

RareOdds == F32Table(RareTenths)

VeryRareOdds == F32Table(VeryRareTenths)

UltraRareOdds == F32Table(UltraRareTenths)

\* Rarity::odds; the array is indexed from 1 here, from 0 in the source.
odds(rarity) ==
    CASE rarity = "Rare" -> RareOdds
      [] rarity = "VeryRare" -> VeryRareOdds
      [] rarity = "UltraRare" -> UltraRareOdds

\* rarity.odds().last().unwrap()
last_odds(rarity) == odds(rarity)[MAX_ODDS]

(***************************************************************************)
(* usize.  A subtraction that underflows panics in a build with overflow   *)
(* checks and wraps otherwise; UsizeSub is the wrapped result, on a word   *)
(* narrowed to 30 bits to fit TLC's integers (the program's other values   *)
(* stay below 2^30 within the bounds of this model).                       *)
(***************************************************************************)
UsizeModulus == 2^30

UsizeSub(a, b) == IF a >= b THEN a - b ELSE UsizeModulus + a - b

UsizeSubUnderflows(a, b) == a < b

(***************************************************************************)
(* expected_value                                                          *)
(***************************************************************************)
\* EvStep with the attempt number counted from zero: (i + 1) - treasure_opening.
EvStepCountsFromZero(st, rarity, treasure_opening, i) ==
    LET p == F32Div(F32One, odds(rarity)[i + 1])
        n == UsizeSub(i + 1, treasure_opening)
    IN  [cum_prob |-> F32Mul(st.cum_prob, F32Sub(F32One, p)),
         exp      |-> F32Add(st.exp, F32Mul(F32Mul(F32FromInt(n), st.cum_prob), p))]

\* The closure body of for_each: one table entry, index i (0-based).
EvStep(st, rarity, treasure_opening, i) ==
    LET p == F32Div(F32One, odds(rarity)[i + 1])
        n == UsizeSub(i + 1, UsizeSub(treasure_opening, 1))
    IN  [cum_prob |-> F32Mul(st.cum_prob, F32Sub(F32One, p)),
         exp      |-> F32Add(st.exp, F32Mul(F32Mul(F32FromInt(n), st.cum_prob), p))]

\* .iter().enumerate().skip(treasure_opening - 1): the index of the first
\* entry visited and the number of entries visited.
EvFirst(treasure_opening) == UsizeSub(treasure_opening, 1)

EvCount(treasure_opening) ==
    IF EvFirst(treasure_opening) >= MAX_ODDS THEN 0
    ELSE MAX_ODDS - EvFirst(treasure_opening)

EvStart == [cum_prob |-> F32One, exp |-> F32Zero]

\* The captured variables after each of n successive calls of the closure,
\* the first on entry i with the variables as in st.  (The loop is unfolded
\* by halves, which keeps the evaluation shallow; the calls and their order
\* are the loop's.)
RECURSIVE EvCalls(_, _, _, _, _)
EvCalls(st, rarity, treasure_opening, i, n) ==
    IF n = 0 THEN << >>
    ELSE IF n = 1 THEN <<EvStep(st, rarity, treasure_opening, i)>>
    ELSE LET h    == n \div 2
             left == EvCalls(st, rarity, treasure_opening, i, h)
         IN  left \o EvCalls(left[h], rarity, treasure_opening, i + h, n - h)

\* for_each over the first k entries visited: the captured variables at the
\* start (element 1) and after each call of the closure (element j + 1
\* after the j-th call).
EvRun(rarity, treasure_opening, k) ==
    <<EvStart>> \o EvCalls(EvStart, rarity, treasure_opening, EvFirst(treasure_opening), k)

\* The state of the closure's captured variables when for_each returns.
EvAfterLoop(rarity, treasure_opening) ==
    EvRun(rarity, treasure_opening, EvCount(treasure_opening))[EvCount(treasure_opening) + 1]

\* EvTail with the attempts made inside the table counted one short.
EvTailOneShort(st, rarity, treasure_opening) ==
    IF treasure_opening <= MAX_ODDS
    THEN F32Add(st.exp,
                F32Mul(st.cum_prob,
                       F32Add(last_odds(rarity),
                              F32FromInt(UsizeSub(MAX_ODDS, treasure_opening)))))
    ELSE F32Add(st.exp, last_odds(rarity))

\* EvTail with the steady-state tail forgotten inside the table.
EvTailForgotten(st, rarity, treasure_opening) ==
    IF treasure_opening <= MAX_ODDS THEN st.exp
    ELSE F32Add(st.exp, last_odds(rarity))

\* exp += if treasure_opening <= MAX_ODDS { .. } else { .. }
EvTail(st, rarity, treasure_opening) ==
    IF treasure_opening <= MAX_ODDS
    THEN F32Add(st.exp,
                F32Mul(st.cum_prob,
                       F32Add(last_odds(rarity),
                              F32FromInt(UsizeSub(MAX_ODDS, treasure_opening) + 1))))
    ELSE F32Add(st.exp, last_odds(rarity))

expected_value(rarity, treasure_opening) ==
    EvTail(EvAfterLoop(rarity, treasure_opening), rarity, treasure_opening)

\* Whether a usize subtraction in expected_value underflows.
EvUnderflows(treasure_opening) ==
    \/ UsizeSubUnderflows(treasure_opening, 1)
    \/ \E i \in 0..(MAX_ODDS - 1) :
          /\ i >= UsizeSub(treasure_opening, 1)
          /\ UsizeSubUnderflows(i + 1, UsizeSub(treasure_opening, 1))
    \/ /\ treasure_opening <= MAX_ODDS
       /\ UsizeSubUnderflows(MAX_ODDS, treasure_opening)

(***************************************************************************)
(* probability                                                             *)
(***************************************************************************)
\* ChainedOdds with the table started over after its end (cycle() for
\* chain(repeat(last))).
ChainedOddsCycling(rarity, j) == odds(rarity)[(j % MAX_ODDS) + 1]

\* Element j (0-based) of odds().iter().chain(repeat(odds().last()))
ChainedOdds(rarity, j) ==
    IF j < MAX_ODDS THEN odds(rarity)[j + 1] ELSE last_odds(rarity)

\* ProbStep with the survival updated before the mass is taken from it.
ProbStepStale(st, o) ==
    LET p   == F32Div(F32One, o)
        cum == F32Mul(st.cum_prob, F32Sub(F32One, p))
    IN  [cum_prob |-> cum, sum |-> F32Add(st.sum, F32Mul(cum, p))]

\* The scan closure on the element of odds `o`, and sum's addition of what it
\* yields.
ProbStep(st, o) ==
    LET p    == F32Div(F32One, o)
        prob == F32Mul(st.cum_prob, p)
    IN  [cum_prob |-> F32Mul(st.cum_prob, F32Sub(F32One, p)),
         sum      |-> F32Add(st.sum, prob)]

ProbStart == [cum_prob |-> F32One, sum |-> F32Zero]

\* scan's state and the running sum after each of n successive elements, the
\* first being element j of the chained odds, from the state st.
RECURSIVE ProbCalls(_, _, _, _)
ProbCalls(st, rarity, j, n) ==
    IF n = 0 THEN << >>
    ELSE IF n = 1 THEN <<ProbStep(st, ChainedOdds(rarity, j))>>
    ELSE LET h    == n \div 2
             left == ProbCalls(st, rarity, j, h)
         IN  left \o ProbCalls(left[h], rarity, j + h, n - h)

\* .skip(treasure_opening - 1).take(k).scan(..).sum(): scan's state and the
\* running sum at the start (element 1) and after each element taken.
ProbRun(rarity, treasure_opening, k) ==
    <<ProbStart>> \o ProbCalls(ProbStart, rarity, UsizeSub(treasure_opening, 1), k)

ProbAfterLoop(rarity, treasure_opening, num_boxes) ==
    ProbRun(rarity, treasure_opening, num_boxes)[num_boxes + 1]

probability(rarity, treasure_opening, num_boxes) ==
    ProbAfterLoop(rarity, treasure_opening, num_boxes).sum

ProbUnderflows(treasure_opening) == UsizeSubUnderflows(treasure_opening, 1)

(***************************************************************************)
(* Text.  A cell of the report, or a line of standard output, is the       *)
(* string that to_string gives, kept here as the kind of the value and the *)
(* value: Display writes a usize in decimal and an f32 as the shortest     *)
(* decimal that reads back as the same f32, so two cells of one kind are   *)
(* equal exactly when their values are.                                    *)
(***************************************************************************)
\* String::new()
EmptyString == <<"">>

\* usize::to_string
UsizeToString(n) == <<"usize", n>>

\* f32::to_string
F32ToString(x) == <<"f32", x.m, x.e>>

RefusalMessage == <<"Treasure opening must be 1 or greater">>

(***************************************************************************)
(* chart's records                                                         *)
(***************************************************************************)
\* repeat(String::new()).take(3).chain((1..=max_boxes).map(|n| n.to_string()))
ChartHeaderRecord(max_boxes) ==
    <<EmptyString, EmptyString, EmptyString>>
        \o [n \in 1..max_boxes |-> UsizeToString(n)]

\* ChartRowRecord with the budgets 0..max_boxes-1 for 1..=max_boxes.
ChartRowRecordFromZero(rarity, treasures, max_boxes) ==
    <<UsizeToString(treasures), F32ToString(expected_value(rarity, treasures)), EmptyString>>
        \o [boxes \in 1..max_boxes |-> F32ToString(probability(rarity, treasures, boxes - 1))]

\* [treasures.to_string(), exp.to_string(), String::new()].into_iter().chain(
\*     (1..=max_boxes).map(|boxes| probability(&rarity, treasures, boxes).to_string()))
ChartRowRecord(rarity, treasures, max_boxes) ==
    <<UsizeToString(treasures), F32ToString(expected_value(rarity, treasures)), EmptyString>>
        \o [boxes \in 1..max_boxes |-> F32ToString(probability(rarity, treasures, boxes))]

\* for treasures in 1..=max_treasures: the first value of the loop variable.
ChartFirstTreasures == 1

(***************************************************************************)
(* csv::Writer over the report file.  The writer keeps the records it is   *)
(* given in a buffer and writes the buffer to the file when the buffer is  *)
(* full; a failed write is returned to the caller.  When the writer is     *)
(* dropped it writes the buffer once more and discards the outcome.  The   *)
(* buffer holds BufRecords records here (8 KiB in the library).            *)
(***************************************************************************)
BufRecords == 2

\* The ways one write of the records recs to the file can end: all of them
\* written, or an error after some of them (not all) were.
FileWriteOutcomes(file, recs) ==
    {[file |-> [file EXCEPT !.records = @ \o recs], ok |-> TRUE]}
        \cup {[file |-> [file EXCEPT !.records = @ \o SubSeq(recs, 1, k)], ok |-> FALSE] :
                 k \in 0..(Len(recs) - 1)}

\* wtr.write_record(rec)
WriteRecordOutcomes(w, file, rec) ==
    IF Len(w) < BufRecords
    THEN {[wtr |-> Append(w, rec), file |-> file, ok |-> TRUE]}
    ELSE {[wtr |-> IF o.ok THEN <<rec>> ELSE w, file |-> o.file, ok |-> o.ok] :
             o \in FileWriteOutcomes(file, w)}

\* Drop for Writer: let _ = self.flush()
DropOutcomes(w, file) ==
    IF w = << >> THEN {[file |-> file, ok |-> TRUE]}
    ELSE FileWriteOutcomes(file, w)

(***************************************************************************)
(* The inputs.  Every bound below is a bound of the model.                 *)
(***************************************************************************)
\* the largest treasure_opening given in the expected-value and probability modes
MaxOpening == 53
\* the largest num_boxes
MaxBoxes == 16
\* the largest treasure_opening given in the chart mode
MaxChartOpening == 1
\* the largest max_treasures
MaxTreasures == 3
\* the largest max_boxes
MaxChartBoxes == 2

Modes == {"ExpectedValue", "Probability", "Chart"}

\* What Args::parse() can return.
ArgsSet ==
    [mode : {"ExpectedValue"}, rarity : Rarity, treasure_opening : 0..MaxOpening,
     num_boxes : {0}, max_treasures : {0}, max_boxes : {0}]
    \cup
    [mode : {"Probability"}, rarity : Rarity, treasure_opening : 0..MaxOpening,
     num_boxes : 0..MaxBoxes, max_treasures : {0}, max_boxes : {0}]
    \cup
    [mode : {"Chart"}, rarity : Rarity, treasure_opening : 0..MaxChartOpening,
     num_boxes : {0}, max_treasures : 0..MaxTreasures, max_boxes : 0..MaxChartBoxes]

\* The file at out_file before the run: none, or one with some content.
NoFile == [exists |-> FALSE, records |-> << >>]

OldFile == [exists |-> TRUE, records |-> << <<"old">> >>]

(***************************************************************************)
(* The program                                                             *)
(***************************************************************************)
VARIABLES
    pc,            \* where the process is
    args,          \* main's args
    exp,           \* main's exp (expected-value mode)
    prob,          \* main's prob (probability mode)
    stdout,        \* the lines printed
    invoked,       \* which of expected_value, probability, chart main has called
    underflow,     \* whether a usize subtraction has underflowed
    file,          \* the file at out_file
    wtr,           \* chart's wtr: the records in the writer's buffer
    treasures,     \* chart's loop variable
    emitted,       \* the records write_record has accepted
    io_error,      \* whether a creation or a write of the file has failed
    chart_result,  \* what chart returned: "none" while it has not
    exit_code      \* the process's exit status: -1 while it runs

vars == <<pc, args, exp, prob, stdout, invoked, underflow, file, wtr, treasures,
          emitted, io_error, chart_result, exit_code>>

Init ==
    /\ pc = "main"
    /\ args \in ArgsSet
    /\ exp = F32Zero
    /\ prob = F32Zero
    /\ stdout = << >>
    /\ invoked = {}
    /\ underflow = FALSE
    /\ file \in {NoFile, OldFile}
    /\ wtr = << >>
    /\ treasures = 0
    /\ emitted = << >>
    /\ io_error = FALSE
    /\ chart_result = "none"
    /\ exit_code = -1

chartVars == <<file, wtr, treasures, emitted, io_error, chart_result>>

\* The guard applied in the expected-value and probability modes only.
PositionRefusedDirectModes(a) == a.mode # "Chart" /\ a.treasure_opening < 1

\* The guard written as a comparison no usize satisfies.
PositionNeverRefused(a) == a.treasure_opening < 0

\* if args.treasure_opening < 1
PositionRefused(a) == a.treasure_opening < 1

\* main, the refusal: println!("Treasure opening must be 1 or greater")
MainRefuse ==
    /\ pc = "main"
    /\ PositionRefused(args)
    /\ stdout' = Append(stdout, RefusalMessage)
    /\ pc' = "exit"
    /\ exit_code' = 0
    /\ UNCHANGED <<args, exp, prob, invoked, underflow>>
    /\ UNCHANGED chartVars

\* main, Mode::ExpectedValue
MainExpectedValue ==
    /\ pc = "main"
    /\ ~PositionRefused(args)
    /\ args.mode = "ExpectedValue"
    /\ invoked' = invoked \cup {"expected_value"}
    /\ underflow' = (underflow \/ EvUnderflows(args.treasure_opening))
    /\ exp' = expected_value(args.rarity, args.treasure_opening)
    /\ stdout' = Append(stdout, F32ToString(exp'))
    /\ pc' = "exit"
    /\ exit_code' = 0
    /\ UNCHANGED <<args, prob>>
    /\ UNCHANGED chartVars

\* main, Mode::Probability
MainProbability ==
    /\ pc = "main"
    /\ ~PositionRefused(args)
    /\ args.mode = "Probability"
    /\ invoked' = invoked \cup {"probability"}
    /\ underflow' = (underflow \/ ProbUnderflows(args.treasure_opening))
    /\ prob' = probability(args.rarity, args.treasure_opening, args.num_boxes)
    /\ stdout' = Append(stdout, F32ToString(prob'))
    /\ pc' = "exit"
    /\ exit_code' = 0
    /\ UNCHANGED <<args, exp>>
    /\ UNCHANGED chartVars

\* main, Mode::Chart: the call of chart
MainChart ==
    /\ pc = "main"
    /\ ~PositionRefused(args)
    /\ args.mode = "Chart"
    /\ invoked' = invoked \cup {"chart"}
    /\ pc' = "chart_create"
    /\ UNCHANGED <<args, exp, prob, stdout, underflow, exit_code>>
    /\ UNCHANGED chartVars

\* chart returns r; its wtr is dropped on the way out.
ChartReturns(r, w, f, failed) ==
    \E d \in DropOutcomes(w, f) :
        /\ file' = d.file
        /\ io_error' = (failed \/ ~d.ok)
        /\ wtr' = << >>
        /\ chart_result' = r
        /\ pc' = "unwrap"

\* let mut wtr = Writer::from_path(out)?
ChartCreate ==
    /\ pc = "chart_create"
    /\ \/ /\ file' = [exists |-> TRUE, records |-> << >>]
          /\ pc' = "chart_header"
          /\ UNCHANGED <<io_error, chart_result>>
       \/ /\ io_error' = TRUE
          /\ chart_result' = "Err"
          /\ pc' = "unwrap"
          /\ UNCHANGED file
    /\ UNCHANGED <<args, exp, prob, stdout, invoked, underflow, wtr, treasures,
                   emitted, exit_code>>

\* wtr.write_record(header)?
ChartHeader ==
    /\ pc = "chart_header"
    /\ \E o \in WriteRecordOutcomes(wtr, file, ChartHeaderRecord(args.max_boxes)) :
          IF o.ok
          THEN /\ wtr' = o.wtr
               /\ file' = o.file
               /\ emitted' = Append(emitted, ChartHeaderRecord(args.max_boxes))
               /\ treasures' = ChartFirstTreasures
               /\ pc' = "chart_rows"
               /\ UNCHANGED <<io_error, chart_result>>
          ELSE /\ ChartReturns("Err", o.wtr, o.file, TRUE)
               /\ UNCHANGED <<emitted, treasures>>
    /\ UNCHANGED <<args, exp, prob, stdout, invoked, underflow, exit_code>>

\* One turn of for treasures in 1..=max_treasures.
ChartRow ==
    /\ pc = "chart_rows"
    /\ treasures <= args.max_treasures
    /\ underflow' = (underflow \/ EvUnderflows(treasures) \/ ProbUnderflows(treasures))
    /\ \E o \in WriteRecordOutcomes(wtr, file,
                                    ChartRowRecord(args.rarity, treasures, args.max_boxes)) :
          IF o.ok
          THEN /\ wtr' = o.wtr
               /\ file' = o.file
               /\ emitted' = Append(emitted,
                                    ChartRowRecord(args.rarity, treasures, args.max_boxes))
               /\ treasures' = treasures + 1
               /\ pc' = "chart_rows"
               /\ UNCHANGED <<io_error, chart_result>>
          ELSE /\ ChartReturns("Err", o.wtr, o.file, TRUE)
               /\ UNCHANGED <<emitted, treasures>>
    /\ UNCHANGED <<args, exp, prob, stdout, invoked, exit_code>>

\* Ok(())
ChartOk ==
    /\ pc = "chart_rows"
    /\ treasures > args.max_treasures
    /\ ChartReturns("Ok", wtr, file, io_error)
    /\ UNCHANGED <<args, exp, prob, stdout, invoked, underflow, treasures, emitted,
                   exit_code>>

\* chart(..).unwrap(): a panic ends the process with status 101.
MainUnwrap ==
    /\ pc = "unwrap"
    /\ exit_code' = IF chart_result = "Ok" THEN 0 ELSE 101
    /\ pc' = "exit"
    /\ UNCHANGED <<args, exp, prob, stdout, invoked, underflow>>
    /\ UNCHANGED chartVars

Next ==
    \/ MainRefuse
    \/ MainExpectedValue
    \/ MainProbability
    \/ MainChart
    \/ ChartCreate
    \/ ChartHeader
    \/ ChartRow
    \/ ChartOk
    \/ MainUnwrap

Spec == Init /\ [][Next]_vars

TypeOK ==
    /\ pc \in {"main", "chart_create", "chart_header", "chart_rows", "unwrap", "exit"}
    /\ args \in ArgsSet
    /\ args.mode \in Modes
    /\ F32Normal(exp) /\ F32Normal(prob)
    /\ (pc = "exit" /\ args.mode = "ExpectedValue" /\ ~PositionRefused(args)) =>
          F32Normal(EvAfterLoop(args.rarity, args.treasure_opening).cum_prob)
    /\ (pc = "exit" /\ args.mode = "Probability" /\ ~PositionRefused(args)) =>
          F32Normal(ProbAfterLoop(args.rarity, args.treasure_opening,
                                  args.num_boxes).cum_prob)
    /\ invoked \subseteq {"expected_value", "probability", "chart"}
    /\ underflow \in BOOLEAN /\ io_error \in BOOLEAN
    /\ Len(wtr) <= BufRecords
    /\ treasures \in 0..(MaxTreasures + 1)
    /\ chart_result \in {"none", "Ok", "Err"}
    /\ exit_code \in {-1, 0, 101}

(***************************************************************************)
(* The claims                                                              *)
(***************************************************************************)
\* main has returned from expected_value(args.rarity, args.treasure_opening)
EvDone ==
    /\ pc = "exit"
    /\ args.mode = "ExpectedValue"
    /\ args.treasure_opening >= 1

\* main has returned from probability(args.rarity, args.treasure_opening, args.num_boxes)
ProbDone ==
    /\ pc = "exit"
    /\ args.mode = "Probability"
    /\ args.treasure_opening >= 1

\* 2^k as an f32
F32Pow2(k) == [m |-> P23, e |-> k - 23]

\* |a - b|, rounded to f32
F32Dist(a, b) == IF F32Le(a, b) THEN F32Sub(b, a) ELSE F32Sub(a, b)

\* The odds of attempt i (1-based) under flat extrapolation of the table.
FlatOdds(rarity, i) ==
    IF i <= MAX_ODDS THEN odds(rarity)[i] ELSE odds(rarity)[MAX_ODDS]

\* 1 - 1/odds_i
FailureRate(rarity, i) == F32Sub(F32One, F32Div(F32One, FlatOdds(rarity, i)))

\* The product of (1 - 1/odds_i) over the n attempts p, p+1, .., p+n-1.
RECURSIVE SurvivalProduct(_, _, _)
SurvivalProduct(rarity, p, n) ==
    IF n = 0 THEN F32One
    ELSE F32Mul(SurvivalProduct(rarity, p, n - 1), FailureRate(rarity, p + n - 1))

\* C1, as stated: probability(rarity, p, B) equals 1 minus the product of
\* (1 - 1/odds_i) over the attempts p .. p+B-1 under flat extrapolation.
C1_Exact ==
    ProbDone =>
        prob = F32Sub(F32One,
                      SurvivalProduct(args.rarity, args.treasure_opening, args.num_boxes))

\* C1, amended: probability(rarity, p, B) and 1 minus the product of
\* (1 - 1/odds_i) over the attempts p .. p+B-1 under flat extrapolation, both
\* computed in f32, differ by at most 2^-20.
C1_WithinRounding ==
    ProbDone =>
        F32Le(F32Dist(prob,
                      F32Sub(F32One,
                             SurvivalProduct(args.rarity, args.treasure_opening,
                                             args.num_boxes))),
              F32Pow2(-20))

\* A probability computed from a start beyond the table, over several attempts.
C1_Witness ==
    /\ ProbDone
    /\ args.treasure_opening > MAX_ODDS
    /\ args.num_boxes >= 2
    /\ args.rarity = "UltraRare"
    /\ F32Lt(F32Zero, prob) /\ F32Lt(prob, F32One)

\* 1 + (1 - 1/odds[p-1]) * E(p+1), with E the function expected_value.
EvRecurrence(rarity, p) ==
    F32Add(F32One, F32Mul(FailureRate(rarity, p), expected_value(rarity, p + 1)))

\* C2, as stated: for p in 1..50, E(p) = 1 + (1 - 1/odds[p-1]) * E(p+1), and
\* E(51) = last_odds.
C2_Exact ==
    (EvDone /\ args.treasure_opening <= MAX_ODDS) =>
        /\ exp = EvRecurrence(args.rarity, args.treasure_opening)
        /\ expected_value(args.rarity, MAX_ODDS + 1) = FlatOdds(args.rarity, MAX_ODDS + 1)

\* C2, amended: for p in 1..50, E(p) and 1 + (1 - 1/odds[p-1]) * E(p+1),
\* computed in f32, differ by at most 2^-15, and E(51) = last_odds.
C2_WithinRounding ==
    (EvDone /\ args.treasure_opening <= MAX_ODDS) =>
        /\ F32Le(F32Dist(exp, EvRecurrence(args.rarity, args.treasure_opening)),
                 F32Pow2(-15))
        /\ expected_value(args.rarity, MAX_ODDS + 1) = FlatOdds(args.rarity, MAX_ODDS + 1)

\* An expected value computed at the table's last position, where the
\* recurrence reaches E(51), for a table whose last odds are not 1.
C2_Witness ==
    /\ EvDone
    /\ args.treasure_opening = MAX_ODDS
    /\ args.rarity = "VeryRare"
    /\ F32Lt(F32One, exp)

\* C3: for every k >= 0, expected_value(rarity, 50 + k) is the table's last
\* entry exactly; for k >= 1 the loop makes no step and leaves exp at 0.
C3_LastOdds ==
    (EvDone /\ args.treasure_opening >= MAX_ODDS) =>
        /\ exp = odds(args.rarity)[MAX_ODDS]
        /\ args.treasure_opening > MAX_ODDS =>
              EvRun(args.rarity, args.treasure_opening,
                    EvCount(args.treasure_opening)) = <<EvStart>>

\* The case k = 0: one turn of the loop and the tail term, last odds 2.2.
C3_Witness ==
    /\ EvDone
    /\ args.treasure_opening = MAX_ODDS
    /\ args.rarity = "VeryRare"
    /\ exp = VeryRareOdds[MAX_ODDS]
    /\ stdout = <<F32ToString(VeryRareOdds[MAX_ODDS])>>

\* C4: for every p in 1..50, expected_value(rarity, p) >= 1.
C4_AtLeastOne ==
    (EvDone /\ args.treasure_opening <= MAX_ODDS) => F32Le(F32One, exp)

\* An expected value inside the table that is exactly 1.
C4_Witness ==
    /\ EvDone
    /\ args.treasure_opening < MAX_ODDS
    /\ args.rarity = "Rare"
    /\ exp = F32One

\* C5, as stated: probability(rarity, p, 0) = 0, probability(rarity, p, B) <=
\* probability(rarity, p, B + 1), and probability(rarity, p, B) is in [0, 1].
C5_Claim ==
    ProbDone =>
        /\ (args.num_boxes = 0 => prob = F32Zero)
        /\ F32Le(prob, probability(args.rarity, args.treasure_opening, args.num_boxes + 1))
        /\ F32Le(F32Zero, prob)
        /\ F32Le(prob, F32One)

\* C6, as stated: an I/O error while creating or writing the report makes
\* chart return an error and the process end with a non-zero status, and chart
\* does not return Ok unless the records it wrote have reached the file.
C6_Claim ==
    /\ (pc = "exit" /\ io_error) => (chart_result = "Err" /\ exit_code # 0)
    /\ chart_result = "Ok" => file.records = emitted

\* C7: with a starting position below 1 nothing is computed in any mode: only
\* the message is printed, none of expected_value, probability and chart is
\* called, and the report file is neither created nor changed.
C7_Refused ==
    args.treasure_opening < 1 =>
        /\ invoked = {}
        /\ exp = F32Zero /\ prob = F32Zero
        /\ file \in {NoFile, OldFile}
        /\ emitted = << >>
        /\ \A i \in DOMAIN stdout : stdout[i] = RefusalMessage
        /\ pc = "exit" => (stdout = <<RefusalMessage>> /\ exit_code = 0)

\* A chart run refused for its starting position.
C7_Witness ==
    /\ pc = "exit"
    /\ args.treasure_opening < 1
    /\ args.mode = "Chart"
    /\ args.max_treasures >= 1
    /\ stdout = <<RefusalMessage>>

\* What emitted holds after a whole report of max_treasures rows.
ReportLayout(recs, rarity, max_treasures, max_boxes) ==
    /\ Len(recs) = 1 + max_treasures
    /\ Len(recs[1]) = 3 + max_boxes
    /\ \A c \in 1..3 : recs[1][c] = EmptyString
    /\ \A n \in 1..max_boxes : recs[1][3 + n] = UsizeToString(n)
    /\ \A t \in 1..max_treasures :
          /\ Len(recs[1 + t]) = 3 + max_boxes
          /\ recs[1 + t][1] = UsizeToString(t)
          /\ recs[1 + t][2] = F32ToString(expected_value(rarity, t))
          /\ recs[1 + t][3] = EmptyString
          /\ \A b \in 1..max_boxes :
                recs[1 + t][3 + b] = F32ToString(probability(rarity, t, b))

\* C8: a chart run that returns Ok has emitted the header and one record per
\* position 1..max_treasures, in order, in the layout [t, expected_value, blank,
\* probability(t, 1), .., probability(t, max_boxes)]; when no write failed, these
\* records are the file.
C8_Layout ==
    chart_result = "Ok" =>
        /\ ReportLayout(emitted, args.rarity, args.max_treasures, args.max_boxes)
        /\ ~io_error => file = [exists |-> TRUE, records |-> emitted]

\* A finished report of several rows and several probability columns.
C8_Witness ==
    /\ pc = "exit"
    /\ chart_result = "Ok"
    /\ exit_code = 0
    /\ ~io_error
    /\ args.max_treasures >= 2
    /\ args.max_boxes >= 2
    /\ Len(file.records) = 1 + args.max_treasures

\* The success mass expected_value weights at its k-th call of the closure:
\* cum_prob before the call times 1/odds.
EvMass(rarity, p, k) ==
    F32Mul(EvRun(rarity, p, k - 1)[k].cum_prob,
           F32Div(F32One, odds(rarity)[p + k - 1]))

\* C9, as stated: for p in 1..50 and k in 1..(50 - p + 1), the mass
\* expected_value weights at step k is probability(p, k) - probability(p, k-1),
\* and cum_prob after the loop is 1 - probability(p, 50 - p + 1).
C9_Exact ==
    (EvDone /\ args.treasure_opening <= MAX_ODDS) =>
        LET r == args.rarity
            p == args.treasure_opening
            n == MAX_ODDS - p + 1
        IN  /\ \A k \in 1..n :
                  EvMass(r, p, k) = F32Sub(probability(r, p, k), probability(r, p, k - 1))
            /\ EvAfterLoop(r, p).cum_prob = F32Sub(F32One, probability(r, p, n))

\* C9, amended: the two sides of each equation, computed in f32, differ by at
\* most 2^-21; and cum_prob after k steps of expected_value is the cum_prob
\* probability holds after k steps, for every k in 0..(50 - p + 1).
C9_WithinRounding ==
    (EvDone /\ args.treasure_opening <= MAX_ODDS) =>
        LET r  == args.rarity
            p  == args.treasure_opening
            n  == MAX_ODDS - p + 1
            ev == EvRun(r, p, n)
            pr == ProbRun(r, p, n)
        IN  /\ \A k \in 1..n :
                  F32Le(F32Dist(EvMass(r, p, k),
                                F32Sub(probability(r, p, k), probability(r, p, k - 1))),
                        F32Pow2(-21))
            /\ F32Le(F32Dist(EvAfterLoop(r, p).cum_prob,
                             F32Sub(F32One, probability(r, p, n))),
                     F32Pow2(-21))
            /\ \A k \in 0..n : ev[k + 1].cum_prob = pr[k + 1].cum_prob

\* An expected value from the table's first position: fifty steps.
C9_Witness ==
    /\ EvDone
    /\ args.treasure_opening = 1
    /\ args.rarity = "UltraRare"
    /\ F32Lt(F32Zero, EvAfterLoop(args.rarity, 1).cum_prob)
    /\ F32Lt(F32FromInt(2), exp)

\* C10: no usize subtraction underflows on any path from main.
C10_NoUnderflow == ~underflow

\* Both functions called at position 1, the smallest position, by chart.
C10_Witness ==
    /\ pc = "exit"
    /\ args.mode = "Chart"
    /\ args.treasure_opening = 1
    /\ Len(emitted) >= 3
    /\ ~underflow

====
